---- MODULE Spec2Model ----
(***************************************************************************)
(* mondrian-rs: a canvas rectangle is split recursively into a binary     *)
(* partition tree (Tree::split over Rectangle::split), the leaves are      *)
(* collected (Tree::leaves) and main paints each leaf into the pixel       *)
(* buffer: interior fill, top/bottom border loop, left/right border loop.  *)
(*                                                                         *)
(* Spec    : main from a fresh, zero-initialised buffer, root = the whole  *)
(*           canvas, canvases up to MaxDim x MaxDim.                       *)
(* SpecBuild : the partition tree builder alone (main up to the collected  *)
(*           leaves), from the same initial states.                        *)
(* SpecSub : the same steps resumed at a subtree: the node rectangle is a  *)
(*           small rectangle somewhere inside a canvas whose longer side   *)
(*           is BorderDivisor (so border_width = 1), and the buffer holds  *)
(*           arbitrary uniform prior contents.                             *)
(***************************************************************************)
EXTENDS Integers, Sequences, FiniteSets, TLC

VARIABLES args, overflowChecks, tree, stack, pc, leaves, li, color,
          imagebuf, lastSplit, wrote

(* args           : the parsed command line (width, height, levels)        *)
(* overflowChecks : whether the build panics on u32 overflow (debug        *)
(*                  profile) or wraps (release profile)                    *)
(* tree, stack    : the node table and the call stack of Tree::split       *)
(* pc             : split | fill | tb | lr | done | panic_div | panic_oob  *)
(*                  | panic_ovf                                            *)
(* leaves, li     : the collected leaves and the leaf being painted        *)
(* color, imagebuf: the colour sampled for that leaf, the pixel buffer     *)
(* lastSplit      : the last call of Rectangle::split and what it returned *)
(* wrote          : the pixels the last loop nest of the leaf loop wrote   *)
vars == <<args, overflowChecks, tree, stack, pc, leaves, li, color,
          imagebuf, lastSplit, wrote>>

(* ---------------------------- bounds ---------------------------------- *)
MaxDim == 3
MaxLevels == 2
MaxColour == 2

(* ------------------------ program constants ---------------------------- *)
BorderDivisor == 1000
PaletteLen == 4
Black == 0

Max(a, b) == IF a >= b THEN a ELSE b

(* u32::saturating_add: every sum of the model stays far below 2^32, where  *)
(* the clamp would act                                                      *)
SatAdd(a, b) == a + b

SatSub(a, b) == IF a < b THEN 0 ELSE a - b

(* the palette handed in by the command line: PaletteLen entries, here     *)
(* cycling over the non-black colour values 1..MaxColour                   *)
Palette == [i \in 1..PaletteLen |-> ((i - 1) % MaxColour) + 1]

(* ---------------------------- Rectangle -------------------------------- *)
Rectangle(x, y, width, height) ==
    [x |-> x, y |-> y, width |-> width, height |-> height]

(* the pixels a rectangle covers *)
RectPixels(r) ==
    {<<i, j>> : i \in r.x .. (r.x + r.width - 1), j \in r.y .. (r.y + r.height - 1)}

(* Rectangle::split, the axis test: the set of values horz_split can take. *)
(* Only evaluated when the divisions are defined (see SplitPanics).        *)
AxisChoicesSwapped(r) ==
    IF r.width \div r.height > 2 THEN {FALSE}
    ELSE IF r.height \div r.width > 2 THEN {TRUE}
    ELSE BOOLEAN

AxisChoices(r) ==
    IF r.width \div r.height > 2 THEN {TRUE}
    ELSE IF r.height \div r.width > 2 THEN {FALSE}
    ELSE BOOLEAN

(* u32 division by zero in the axis test: self.width / self.height, and,   *)
(* when that is not > 2, self.height / self.width                          *)
SplitPanics(r) ==
    \/ r.height = 0
    \/ (~(r.width \div r.height > 2) /\ r.width = 0)

(* (extent as f32 * gen_range(0.4..=0.6)).trunc() as u32: every integer    *)
(* from floor(0.4 * extent) to floor(0.6 * extent). The f32 product rounds *)
(* to the same integers as the exact one for extents far below 2^23, as    *)
(* all extents here are.                                                   *)
SplitCoordsWide(extent) == ((3 * extent) \div 10) .. ((3 * extent) \div 5)

SplitCoords(extent) == ((2 * extent) \div 5) .. ((3 * extent) \div 5)

SplitLeft(r, horz, k) ==
    IF horz THEN Rectangle(r.x, r.y, k, r.height)
    ELSE Rectangle(r.x, r.y, r.width, k)

SplitRightOverlap(r, horz, k) ==
    IF horz THEN Rectangle(r.x + k, r.y, r.width, r.height)
    ELSE Rectangle(r.x, r.y + k, r.width, r.height)

SplitRight(r, horz, k) ==
    IF horz THEN Rectangle(r.x + k, r.y, r.width - k, r.height)
    ELSE Rectangle(r.x, r.y + k, r.width, r.height - k)

(* ------------------------------ Tree ----------------------------------- *)
(* Nodes live in a table indexed like a heap: the Box behind node n's left *)
(* is node 2n, behind its right node 2n+1. left/right say whether the      *)
(* Option is Some.                                                         *)
TreeNew(item) == [item |-> item, left |-> FALSE, right |-> FALSE, depth |-> 0]

RECURSIVE LeavesRightFirst(_, _)
LeavesRightFirst(t, n) ==
    IF t[n].left \/ t[n].right
    THEN (IF t[n].right THEN LeavesRightFirst(t, 2 * n + 1) ELSE <<>>)
         \o (IF t[n].left THEN LeavesRightFirst(t, 2 * n) ELSE <<>>)
    ELSE <<t[n].item>>

RECURSIVE LeavesOf(_, _)
LeavesOf(t, n) ==
    IF t[n].left \/ t[n].right
    THEN (IF t[n].left THEN LeavesOf(t, 2 * n) ELSE <<>>)
         \o (IF t[n].right THEN LeavesOf(t, 2 * n + 1) ELSE <<>>)
    ELSE <<t[n].item>>

NoRect == Rectangle(0, 0, 0, 0)

NoSplit == [valid |-> FALSE, parent |-> NoRect, horz |-> FALSE, k |-> 0,
            left |-> NoRect, right |-> NoRect]

Frame(n, pos, right) == [node |-> n, pos |-> pos, right |-> right]

Top == stack[Len(stack)]

Pop == SubSeq(stack, 1, Len(stack) - 1)

(* ------------------------------ main ----------------------------------- *)
(* RgbImage::new(width, height): row-major, every pixel c; the pixel (x, y) *)
(* is buf[y + 1][x + 1]                                                    *)
NewImage(width, height, c) == [j \in 1..height |-> [i \in 1..width |-> c]]

PixelAt(buf, p) == buf[p[2] + 1][p[1] + 1]

border_width == Max(args.width, args.height) \div BorderDivisor

InBuffer(p) == p[1] < args.width /\ p[2] < args.height

Start(a, root, buf, chk) ==
    /\ args = a
    /\ overflowChecks = chk
    /\ tree = (1 :> TreeNew(root))
    /\ stack = <<Frame(1, "start", NoRect)>>
    /\ pc = "split"
    /\ leaves = <<>>
    /\ li = 0
    /\ color = Black
    /\ imagebuf = buf
    /\ lastSplit = NoSplit
    /\ wrote = {}

Init ==
    \E w \in 1..MaxDim, h \in 1..MaxDim, l \in 0..MaxLevels, chk \in BOOLEAN :
        Start([width |-> w, height |-> h, levels |-> l],
              Rectangle(0, 0, w, h),
              NewImage(w, h, Black),
              chk)

(* Tree::split, line 111: depth >= max_depth, return *)
TreeSplitReturn ==
    /\ pc = "split" /\ stack # <<>>
    /\ Top.pos = "start"
    /\ tree[Top.node].depth >= args.levels
    /\ stack' = Pop
    /\ UNCHANGED <<args, overflowChecks, tree, pc, leaves, li, color, imagebuf,
                   lastSplit, wrote>>

(* Tree::split, lines 115-118: split the item, build left_tree, recurse *)
TreeSplitLeft ==
    /\ pc = "split" /\ stack # <<>>
    /\ Top.pos = "start"
    /\ tree[Top.node].depth < args.levels
    /\ LET n == Top.node
           r == tree[n].item
       IN IF SplitPanics(r)
          THEN /\ pc' = "panic_div"
               /\ UNCHANGED <<tree, stack, lastSplit>>
          ELSE \E horz \in AxisChoices(r) :
               \E k \in SplitCoords(IF horz THEN r.width ELSE r.height) :
                 LET l == SplitLeft(r, horz, k)
                     rt == SplitRight(r, horz, k)
                 IN /\ tree' = tree @@ (2 * n :> [TreeNew(l) EXCEPT !.depth = tree[n].depth + 1])
                    /\ stack' = Pop \o <<Frame(n, "left", rt), Frame(2 * n, "start", NoRect)>>
                    /\ lastSplit' = [valid |-> TRUE, parent |-> r, horz |-> horz, k |-> k,
                                     left |-> l, right |-> rt]
                    /\ pc' = pc
    /\ UNCHANGED <<args, overflowChecks, leaves, li, color, imagebuf, wrote>>

(* Tree::split, lines 119-123: attach left, build right_tree, recurse *)
TreeSplitRight ==
    /\ pc = "split" /\ stack # <<>>
    /\ Top.pos = "left"
    /\ LET n == Top.node
       IN /\ tree' = [tree EXCEPT ![n].left = TRUE]
                     @@ (2 * n + 1 :> [TreeNew(Top.right) EXCEPT !.depth = tree[n].depth + 1])
          /\ stack' = Pop \o <<Frame(n, "right", NoRect), Frame(2 * n + 1, "start", NoRect)>>
    /\ UNCHANGED <<args, overflowChecks, pc, leaves, li, color, imagebuf, lastSplit, wrote>>

(* Tree::split, line 124: attach right, return *)
TreeSplitDone ==
    /\ pc = "split" /\ stack # <<>>
    /\ Top.pos = "right"
    /\ tree' = [tree EXCEPT ![Top.node].right = TRUE]
    /\ stack' = Pop
    /\ UNCHANGED <<args, overflowChecks, pc, leaves, li, color, imagebuf, lastSplit, wrote>>

(* main, line 190: tree.leaves().collect() *)
TreeLeaves ==
    /\ pc = "split" /\ stack = <<>>
    /\ leaves' = LeavesOf(tree, 1)
    /\ li' = 0
    /\ pc' = "fill"
    /\ UNCHANGED <<args, overflowChecks, tree, stack, color, imagebuf, lastSplit, wrote>>

(* the partition tree builder: main up to line 190 *)
NextBuild ==
    \/ TreeSplitReturn
    \/ TreeSplitLeft
    \/ TreeSplitRight
    \/ TreeSplitDone
    \/ TreeLeaves

SpecBuild == Init /\ [][NextBuild]_vars

(* ------------------------- painting a leaf ----------------------------- *)
Range(lo, hi) == lo .. (hi - 1)

(* lines 208-213: the interior fill's pixel accesses *)
InteriorPixelsNoMargin(r, bw) ==
    {<<i, j>> : i \in Range(r.x + bw, SatAdd(r.x, r.width)),
                j \in Range(r.y + bw, SatAdd(r.y, r.height))}

InteriorPixels(r, bw) ==
    {<<i, j>> : i \in Range(r.x + bw, SatSub(SatAdd(r.x, r.width), bw)),
                j \in Range(r.y + bw, SatSub(SatAdd(r.y, r.height), bw))}

(* lines 218-227: x runs over rectangle.x .. rectangle.width *)
TopBottomPixels(r, bw) ==
    {<<i, j>> : i \in Range(r.x, r.width),
                j \in Range(r.y, r.y + bw)
                      \cup Range(SatSub(r.y + r.height, bw), r.y + r.height)}

(* line 236: rectangle.y + rectangle.height - border_width, evaluated once  *)
(* the outer loop over rectangle.x .. rectangle.x + border_width runs       *)
LeftRightUnderflows(r, bw) == bw >= 1 /\ r.y + r.height < bw

(* lines 230-240: both inner loops run over the columns x .. x+border_width; *)
(* when line 236 wraps (no overflow checks) its range starts above its end   *)
(* and is empty                                                              *)
LeftRightPixels(r, bw) ==
    {<<i, j>> : i \in Range(r.x, r.x + bw),
                j \in Range(r.y, r.y + r.height)
                      \cup (IF r.y + r.height < bw THEN {}
                            ELSE Range(r.y + r.height - bw, r.y + r.height))}

(* *pixel = c for every pixel of S *)
PutPixels(buf, S, c) ==
    LET rows == {p[2] : p \in S}
    IN [j \in 1..Len(buf) |->
          IF (j - 1) \notin rows THEN buf[j]
          ELSE [i \in 1..Len(buf[j]) |-> IF <<i - 1, j - 1>> \in S THEN c ELSE buf[j][i]]]

(* ImageBuffer::get_pixel_mut panics outside the buffer; otherwise every    *)
(* pixel of the loop nest is set to c. A panic aborts the process, the      *)
(* buffer is never saved and is left as it was here.                        *)
Put(S, c, nextpc) ==
    IF \E p \in S : ~InBuffer(p)
    THEN /\ pc' = "panic_oob"
         /\ UNCHANGED <<imagebuf, wrote>>
    ELSE /\ imagebuf' = PutPixels(imagebuf, S, c)
         /\ wrote' = S
         /\ pc' = nextpc

(* lines 204-213: next leaf, sample its colour, fill the interior *)
PaintInterior ==
    /\ pc = "fill"
    /\ li' = li + 1
    /\ \E idx \in 1..PaletteLen :
         /\ color' = Palette[idx]
         /\ Put(InteriorPixels(leaves[li + 1], border_width), Palette[idx], "tb")
    /\ UNCHANGED <<args, overflowChecks, tree, stack, leaves, lastSplit>>

(* lines 218-227: top and bottom *)
PaintTopBottom ==
    /\ pc = "tb"
    /\ Put(TopBottomPixels(leaves[li], border_width), Black, "lr")
    /\ UNCHANGED <<args, overflowChecks, tree, stack, leaves, li, color, lastSplit>>

(* lines 230-240: left and right; then the next leaf, or line 243. With     *)
(* overflow checks line 236 panics once the first column's first inner     *)
(* loop is through.                                                        *)
PaintLeftRight ==
    /\ pc = "lr"
    /\ IF overflowChecks /\ LeftRightUnderflows(leaves[li], border_width)
          /\ \A p \in {<<i, j>> \in LeftRightPixels(leaves[li], border_width) :
                          i = leaves[li].x} : InBuffer(p)
       THEN /\ pc' = "panic_ovf"
            /\ UNCHANGED <<imagebuf, wrote>>
       ELSE Put(LeftRightPixels(leaves[li], border_width), Black,
                IF li = Len(leaves) THEN "done" ELSE "fill")
    /\ UNCHANGED <<args, overflowChecks, tree, stack, leaves, li, color, lastSplit>>

Next ==
    \/ NextBuild
    \/ PaintInterior
    \/ PaintTopBottom
    \/ PaintLeftRight

Spec == Init /\ [][Next]_vars

(* The same program resumed at a subtree: a small node rectangle inside a   *)
(* canvas with a border, over a buffer with uniform prior contents. The     *)
(* node is a leaf (levels 0) or the parent of two leaves (levels 1).        *)
SubCanvases ==
    {<<BorderDivisor, MaxDim>>, <<MaxDim, BorderDivisor>>, <<2 * BorderDivisor, 1>>}

InitSub ==
    \E c \in SubCanvases, l \in {0, 1}, chk \in BOOLEAN, prior \in 0..MaxColour :
    \E w \in 1..MaxDim, h \in 1..MaxDim :
    \E x \in {0, c[1] - w}, y \in {0, c[2] - h} :
        /\ x >= 0 /\ y >= 0
        /\ Start([width |-> c[1], height |-> c[2], levels |-> l],
                 Rectangle(x, y, w, h),
                 NewImage(c[1], c[2], prior),
                 chk)

SpecSub == InitSub /\ [][Next]_vars

(* ============================ properties ================================ *)
RECURSIVE Pow2(_)
Pow2(n) == IF n = 0 THEN 1 ELSE 2 * Pow2(n - 1)

SplitExtent == IF lastSplit.horz THEN lastSplit.parent.width ELSE lastSplit.parent.height

LeavesCollected == pc \notin {"split", "panic_div"}

(* the leaf whose loop nest ran last *)
CurLeaf == leaves[li]

Painting == LeavesCollected /\ li >= 1

(* C1: the two children returned by Rectangle::split tile the parent: the  *)
(* union of their pixel sets is the parent's pixel set and they share no   *)
(* pixel, on either axis and for every split coordinate.                   *)
C1_SplitTilesParent ==
    lastSplit.valid =>
        /\ RectPixels(lastSplit.left) \cup RectPixels(lastSplit.right)
              = RectPixels(lastSplit.parent)
        /\ RectPixels(lastSplit.left) \cap RectPixels(lastSplit.right) = {}

C1_Witness ==
    /\ lastSplit.valid
    /\ lastSplit.horz
    /\ lastSplit.k >= 1
    /\ lastSplit.k < lastSplit.parent.width
    /\ lastSplit.parent.height >= 2

(* the leaves collected are pairwise disjoint and cover the root rectangle *)
LeavesTileRoot ==
    /\ \A a, b \in 1..Len(leaves) :
          a # b => RectPixels(leaves[a]) \cap RectPixels(leaves[b]) = {}
    /\ UNION {RectPixels(leaves[a]) : a \in 1..Len(leaves)} = RectPixels(tree[1].item)

(* C2: Tree::split followed by Tree::leaves always yields exactly          *)
(* 2^maxDepth leaves, pairwise disjoint and covering the root: the build   *)
(* does not abort, and what it yields has that shape.                      *)
C2_BuilderYieldsTiling ==
    /\ pc # "panic_div"
    /\ LeavesCollected => (Len(leaves) = Pow2(args.levels) /\ LeavesTileRoot)

(* what the builder yields when it does not abort *)
LeavesShapeWhenBuilt ==
    LeavesCollected => (Len(leaves) = Pow2(args.levels) /\ LeavesTileRoot)

(* C3: every rectangle stored in the tree has width > 0 and height > 0.    *)
C3_AllExtentsPositive ==
    \A n \in DOMAIN tree : tree[n].item.width > 0 /\ tree[n].item.height > 0

(* C4: the whole generation runs to completion without a panic: no         *)
(* division by zero, no arithmetic overflow, no pixel access outside the   *)
(* buffer.                                                                 *)
C4_NoPanic == pc \notin {"panic_div", "panic_oob", "panic_ovf"}

(* C5: every pixel written while painting a leaf (interior fill and every  *)
(* border loop) lies inside that leaf's own rectangle, which is what makes *)
(* the painting order irrelevant.                                          *)
C5_WritesStayInLeaf ==
    Painting => wrote \subseteq RectPixels(CurLeaf)

(* the four border bands of a rectangle *)
BorderBands(r, bw) ==
    {p \in RectPixels(r) :
        \/ p[2] < r.y + bw
        \/ p[2] >= r.y + r.height - bw
        \/ p[1] < r.x + bw
        \/ p[1] >= r.x + r.width - bw}

(* C6: once a leaf with width >= 2*border_width and height >=              *)
(* 2*border_width is painted, every pixel of its four border bands is      *)
(* black, whatever the buffer held before.                                 *)
C6_BordersBlack ==
    (/\ Painting
     /\ pc \in {"fill", "done"}
     /\ CurLeaf.width >= 2 * border_width
     /\ CurLeaf.height >= 2 * border_width)
    => \A p \in BorderBands(CurLeaf, border_width) : PixelAt(imagebuf, p) = Black

(* columns [x+bw, x+width-bw) and rows [y+bw, y+height-bw) *)
InsideMargin(r, bw) ==
    {<<i, j>> : i \in (r.x + bw) .. (r.x + r.width - bw - 1),
                j \in (r.y + bw) .. (r.y + r.height - bw - 1)}

(* C7: the interior fill never panics and sets to the selected colour      *)
(* exactly the pixels inside the border margin, leaving every other pixel  *)
(* as it was; a leaf narrower or lower than 2*border_width gets no pixel.  *)
C7_InteriorFillExact ==
    [][pc = "fill" =>
         LET r == leaves[li']
             inside == InsideMargin(r, border_width)
             rows == {p[2] : p \in inside}
         IN /\ pc' = "tb"
            /\ wrote' = inside
            /\ (r.width < 2 * border_width \/ r.height < 2 * border_width) => wrote' = {}
            /\ \A j \in 1..args.height :
                  IF (j - 1) \in rows
                  THEN \A i \in 1..args.width :
                         imagebuf'[j][i] = IF <<i - 1, j - 1>> \in inside
                                           THEN color' ELSE imagebuf[j][i]
                  ELSE imagebuf'[j] = imagebuf[j]]_vars

C7_Witness ==
    /\ pc = "tb"
    /\ border_width >= 1
    /\ CurLeaf.width < 2 * border_width
    /\ CurLeaf.height >= 2 * border_width
    /\ wrote = {}

(* C8: when the extent along the split axis is >= 3, both children get a   *)
(* positive extent along that axis.                                        *)
C8_PositiveFromThree ==
    (lastSplit.valid /\ SplitExtent >= 3) =>
        /\ lastSplit.k >= 1
        /\ SplitExtent - lastSplit.k >= 1
        /\ (IF lastSplit.horz THEN lastSplit.left.width ELSE lastSplit.left.height) >= 1
        /\ (IF lastSplit.horz THEN lastSplit.right.width ELSE lastSplit.right.height) >= 1

C8_Witness == lastSplit.valid /\ SplitExtent >= 3

SideBySide(s) ==
    /\ s.left.y = s.parent.y /\ s.right.y = s.parent.y
    /\ s.left.height = s.parent.height /\ s.right.height = s.parent.height
    /\ s.left.x = s.parent.x /\ s.right.x = s.parent.x + s.left.width
    /\ s.left.width + s.right.width = s.parent.width

Stacked(s) ==
    /\ s.left.x = s.parent.x /\ s.right.x = s.parent.x
    /\ s.left.width = s.parent.width /\ s.right.width = s.parent.width
    /\ s.left.y = s.parent.y /\ s.right.y = s.parent.y + s.left.height
    /\ s.left.height + s.right.height = s.parent.height

(* C9: width / height > 2 forces a horizontal split (children side by      *)
(* side); otherwise height / width > 2 forces a vertical split (children   *)
(* stacked); in every case the children are laid out along the chosen axis.*)
C9_AxisSelection ==
    lastSplit.valid =>
        LET r == lastSplit.parent
            wide == r.height > 0 /\ r.width \div r.height > 2
            tall == r.width > 0 /\ r.height \div r.width > 2
        IN /\ wide => lastSplit.horz
           /\ (~wide /\ tall) => ~lastSplit.horz
           /\ IF lastSplit.horz THEN SideBySide(lastSplit) ELSE Stacked(lastSplit)

C9_Witness ==
    /\ lastSplit.valid
    /\ lastSplit.parent.width \div lastSplit.parent.height > 2
    /\ lastSplit.horz
    /\ lastSplit.k >= 1

(* nodes without children *)
LeafNodes == {n \in DOMAIN tree : ~tree[n].left /\ ~tree[n].right}

(* C10: Tree::leaves returns exactly the items of the childless nodes, in  *)
(* tree order (left subtree first), all of them at depth maxDepth; calling *)
(* it again on the tree returns the same sequence.                         *)
C10_LeavesExact ==
    LeavesCollected =>
        /\ LeafNodes = Pow2(args.levels) .. (2 * Pow2(args.levels) - 1)
        /\ \A n \in LeafNodes : tree[n].depth = args.levels
        /\ leaves = [k \in 1..Pow2(args.levels) |-> tree[Pow2(args.levels) + k - 1].item]
        /\ LeavesOf(tree, 1) = leaves

C10_Witness ==
    /\ pc = "fill" /\ li = 0
    /\ Len(leaves) = 4
    /\ leaves[1] # leaves[4]

====
